---- MODULE Spec2Model ----
(***************************************************************************)
(* The at-bat state machine of the batting simulator (src/src/Game.js),    *)
(* with the ball body (class Ball) and the bat's swing timer               *)
(* (src/src/Bat.js).                                                       *)
(*                                                                         *)
(* Numbers are fixed point: lengths in centimetres, velocities in cm/s,    *)
(* accelerations in cm/s^2, times in milliseconds, speeds shown to the     *)
(* player in 1/1000 mph, distances shown to the player in 1/100 ft,        *)
(* qualities and screen distances in 1/1000, angles in whole degrees.      *)
(* A float operation of the source is the same operation on these          *)
(* integers, rounded to the nearest unit.                                  *)
(***************************************************************************)
EXTENDS Integers, Sequences, FiniteSets, TLC

VARIABLES
  state, stateTimer,
  score, strikes, outs,
  lastResult, lastExitMph, lastHitDistanceFeet, lastWasFairHit,
  currentPitchCall, currentPitchHasCrossedPlate,
  swingUsedThisPitch, hadContactThisPitch,
  pitchMoveXPerSec, pitchMoveYPerSec, pitchGravityScale,
  ballPos, ballVel, isActive, isHit,
  swingActive, swingTime,
  aiDraw, aiChoice

gameVars == <<state, stateTimer, score, strikes, outs, lastResult, lastExitMph,
              lastHitDistanceFeet, lastWasFairHit, currentPitchCall,
              currentPitchHasCrossedPlate, swingUsedThisPitch,
              hadContactThisPitch, pitchMoveXPerSec, pitchMoveYPerSec,
              pitchGravityScale>>
ballVars == <<ballPos, ballVel, isActive, isHit>>
batVars == <<swingActive, swingTime>>
\* PitcherAI: the last draw r = Math.random() * total of _chooseWeightedRandom,
\* in 1/1000, and the code of the definition it returned ("" before any).
aiVars == <<aiDraw, aiChoice>>
vars == <<gameVars, ballVars, batVars, aiVars>>

----------------------------------------------------------------------------
(* Bounds of the model.                                                    *)

\* requestPitch is explored while outs < MaxOuts.
MaxOuts == 1
\* requestPitch is explored while score <= MaxScore.
MaxScore == 60
\* Ticks in IDLE are explored while stateTimer stays <= MaxIdleMs.
MaxIdleMs == 100
\* The largest distance between ball and reticle, in 1/1000 of the strike-zone
\* rectangle, the contact quality is examined for.
MaxScreenDist == 250

\* Frame times (ms) the tick callback is given: a regular frame, a slow one,
\* and the long one of a page that was in the background (main.js hands
\* update() the whole time since the last frame). While a ball is in flight
\* regular frames are explored, the slow frame as a frame in which a pitch
\* goes from before the plate to beyond plateZ + 1.0, and the long frame as
\* the first frame after contact.
DtSet == {50, 100, 3000}
DtFrame == CHOOSE d \in DtSet : \A e \in DtSet : d <= e
DtLong == CHOOSE d \in DtSet : \A e \in DtSet : d >= e
DtSlow == CHOOSE d \in DtSet : d # DtFrame /\ d # DtLong

----------------------------------------------------------------------------
(* Program constants.                                                      *)

GAME_STATES == {"IDLE", "PITCHING", "SWINGING", "BALL_IN_PLAY", "RESULT"}

\* 0.44704 m/s per mph, as cm/s per 1000 mph.
MPH_TO_MS == 44704
\* 3.28084 ft per m, as 1/1000 ft per m.
FT_PER_M == 3281

plateZ == 25
strikeZoneCenterY == 110
strikeZoneCenterZ == plateZ
strikeZoneWidth == 60
strikeZoneHeight == 80
zoneLeftX == 0 - (strikeZoneWidth \div 2)
zoneRightX == strikeZoneWidth \div 2
zoneTopY == strikeZoneCenterY + (strikeZoneHeight \div 2)
zoneBottomY == strikeZoneCenterY - (strikeZoneHeight \div 2)

\* Gravity (0, -9.8, 0) m/s^2: its y component in cm/s^2.
gravity == -980
\* Drag coefficients 0.02 /m and 0.03 /m, in 1/10000 per cm.
pitchDragCoeff == 2
flightDragCoeff == 3

maxStrikes == 3
resultDelay == 1200
swingTimingWindowZ == 60
maxScreenDistForHit == 180
maxScreenDistForPerfect == 70

\* Bat: total swing duration (ms), contact window (percent of the duration).
SWING_DURATION == 550
CONTACT_START == 16
CONTACT_END == 22

NoCall == "-"

----------------------------------------------------------------------------
(* Arithmetic helpers.                                                     *)

\* a / b for b > 0, rounded to the nearest integer (halves upwards), which is
\* also Math.round of the quotient.
RDiv(a, b) == (2 * a + b) \div (2 * b)

Max(a, b) == IF a >= b THEN a ELSE b
Min(a, b) == IF a <= b THEN a ELSE b
Abs(a) == IF a >= 0 THEN a ELSE 0 - a

\* THREE.MathUtils.clamp
Clamp(v, lo, hi) == Max(lo, Min(hi, v))

\* The largest r in lo .. hi with r * r <= n, by bisection. A function: its
\* arguments are evaluated once, where it is applied.
SqrtBetween[n \in Nat, lo \in Nat, hi \in Nat] ==
  IF lo >= hi THEN lo
  ELSE LET mid == (lo + hi + 1) \div 2
       IN IF mid * mid <= n THEN SqrtBetween[n, mid, hi]
          ELSE SqrtBetween[n, lo, mid - 1]

\* Math.sqrt, rounded down.
Sqrt(n) == SqrtBetween[n, 0, 46340]

Vec(x, y, z) == [x |-> x, y |-> y, z |-> z]

\* THREE.Vector3: the vectors.
Vector3 == [x : Int, y : Int, z : Int]

\* Vector3.length
Length(v) == Sqrt(v.x * v.x + v.y * v.y + v.z * v.z)

\* Vector3.lengthSq
LengthSq(v) == v.x * v.x + v.y * v.y + v.z * v.z

\* 1000 * sin(d degrees) for d in 0..90.
SinTable ==
  << 0, 17, 35, 52, 70, 87, 105, 122, 139, 156, 174, 191, 208,
     225, 242, 259, 276, 292, 309, 326, 342, 358, 375, 391, 407, 423,
     438, 454, 469, 485, 500, 515, 530, 545, 559, 574, 588, 602, 616,
     629, 643, 656, 669, 682, 695, 707, 719, 731, 743, 755, 766, 777,
     788, 799, 809, 819, 829, 839, 848, 857, 866, 875, 883, 891, 899,
     906, 914, 921, 927, 934, 940, 946, 951, 956, 961, 966, 970, 974,
     978, 982, 985, 988, 990, 993, 995, 996, 998, 999, 999, 1000, 1000 >>

\* Math.sin and Math.cos of an angle of d degrees, -90 <= d <= 90, times 1000.
Sin(d) == IF d >= 0 THEN SinTable[d + 1] ELSE 0 - SinTable[(0 - d) + 1]
Cos(d) == SinTable[(90 - Abs(d)) + 1]

pitcherPosition == Vec(0, 110, -1840)
\* Where an inactive ball is parked: (0, -10, 0) m.
offField == Vec(0, -1000, 0)

----------------------------------------------------------------------------
(* Ball (class Ball).                                                      *)

\* Ball.update: the drag on the velocity v of length speed over dt.
\* normalize(v) * (-dragCoeff * speed^2) is v * (-dragCoeff * speed). A
\* function: its arguments are evaluated once, where it is applied.
Dragged[v \in Vector3, speed \in Nat, dragCoeff \in Nat, dt \in Nat] ==
  LET Less(c) == c - RDiv(RDiv(dragCoeff * speed * c, 10000) * dt, 1000)
  IN IF dragCoeff > 0 /\ speed > 0
     THEN Vec(Less(v.x), Less(v.y), Less(v.z))
     ELSE v

\* Ball.update: the position advanced by the velocity v over dt, with v.
Moved[pos \in Vector3, v \in Vector3, dt \in Nat] ==
  [pos |-> Vec(pos.x + RDiv(v.x * dt, 1000),
               pos.y + RDiv(v.y * dt, 1000),
               pos.z + RDiv(v.z * dt, 1000)),
   vel |-> v]

\* Ball.update(dt, gravity, dragCoeff): the new position and velocity.
\* gravity is the y component g of the vector (0, g, 0).
BallUpdate(pos, vel, active, dt, g, dragCoeff) ==
  IF ~active THEN [pos |-> pos, vel |-> vel]
  ELSE
    LET v1 == [vel EXCEPT !.y = @ + RDiv(g * dt, 1000)]
    IN Moved[pos, Dragged[v1, Length(v1), dragCoeff, dt], dt]

\* The velocity Ball.startPitch gives the ball: the unit vector from the
\* pitcher to the target, set to the length speedMph * MPH_TO_MS.
PitchVelocity(speedMph, target) ==
  LET d == Vec(target.x - pitcherPosition.x, target.y - pitcherPosition.y,
               target.z - pitcherPosition.z)
      len == Length(d)
      speedMs == RDiv(speedMph * MPH_TO_MS, 1000)
  IN Vec(RDiv(d.x * speedMs, len), RDiv(d.y * speedMs, len),
         RDiv(d.z * speedMs, len))

----------------------------------------------------------------------------
(* Bat (src/src/Bat.js): the swing timer.                                  *)

\* startSwing that restarts a swing in progress.
StartSwingRestart(active, time) == [swingActive |-> TRUE, swingTime |-> 0]

\* Bat.startSwing: ignored while a swing is in progress.
StartSwing(active, time) ==
  IF active /\ time < SWING_DURATION
  THEN [swingActive |-> active, swingTime |-> time]
  ELSE [swingActive |-> TRUE, swingTime |-> 0]

\* Bat.update that stops the swing without clamping its time.
BatUpdateNoClamp(active, time, dt) ==
  IF ~active THEN [swingActive |-> active, swingTime |-> time]
  ELSE [swingActive |-> time + dt < SWING_DURATION, swingTime |-> time + dt]

\* Bat.update(dt): the swing timer part.
BatUpdate(active, time, dt) ==
  IF ~active THEN [swingActive |-> active, swingTime |-> time]
  ELSE IF time + dt >= SWING_DURATION
       THEN [swingActive |-> FALSE, swingTime |-> SWING_DURATION]
       ELSE [swingActive |-> TRUE, swingTime |-> time + dt]

\* isInContactWindow without the lower end of the window.
IsInContactWindowNoStart(active, time) ==
  IF ~active /\ time >= SWING_DURATION THEN FALSE
  ELSE time * 100 <= CONTACT_END * SWING_DURATION

\* Bat.isInContactWindow: tNorm = swingTime / SWING_DURATION within
\* [CONTACT_START, CONTACT_END].
IsInContactWindow(active, time) ==
  IF ~active /\ time >= SWING_DURATION THEN FALSE
  ELSE /\ time * 100 >= CONTACT_START * SWING_DURATION
       /\ time * 100 <= CONTACT_END * SWING_DURATION

----------------------------------------------------------------------------
(* Game: the decisions of the at-bat state machine.                        *)

\* _addStrike that forgets to count the out.
AddStrikeNoOut(s, o) ==
  IF s + 1 >= maxStrikes
  THEN [strikes |-> 0, outs |-> o]
  ELSE [strikes |-> s + 1, outs |-> o]

\* _addStrike that compares with > instead of >=.
AddStrikeLate(s, o) ==
  IF s + 1 > maxStrikes
  THEN [strikes |-> 0, outs |-> o + 1]
  ELSE [strikes |-> s + 1, outs |-> o]

\* _addStrike that counts the strike twice.
AddStrikeTwice(s, o) ==
  IF s + 2 >= maxStrikes
  THEN [strikes |-> 0, outs |-> o + 1]
  ELSE [strikes |-> s + 2, outs |-> o]

\* Game._addStrike: the new strikes and outs.
AddStrike(s, o) ==
  IF s + 1 >= maxStrikes
  THEN [strikes |-> 0, outs |-> o + 1]
  ELSE [strikes |-> s + 1, outs |-> o]

\* _callPitchAtPlate with the top and the bottom of the zone mixed up.
CallPitchAtPlateFlipped(p) ==
  LET inX == p.x >= zoneLeftX /\ p.x <= zoneRightX
      inY == p.y >= zoneTopY /\ p.y <= zoneBottomY
  IN IF inX /\ inY THEN "Strike" ELSE "Ball"

\* _callPitchAtPlate with the right edge of the zone left out.
CallPitchAtPlateExclusive(p) ==
  LET inX == p.x >= zoneLeftX /\ p.x < zoneRightX
      inY == p.y >= zoneBottomY /\ p.y <= zoneTopY
  IN IF inX /\ inY THEN "Strike" ELSE "Ball"

\* Game._callPitchAtPlate
CallPitchAtPlate(p) ==
  LET inX == p.x >= zoneLeftX /\ p.x <= zoneRightX
      inY == p.y >= zoneBottomY /\ p.y <= zoneTopY
  IN IF inX /\ inY THEN "Strike" ELSE "Ball"

\* _checkPlateCrossing without the test that the ball has reached the plate.
CrossesPlateEarly(prev, curr, crossed, active, contact) ==
  /\ ~(crossed \/ ~active \/ contact)
  /\ prev.z < plateZ

\* _checkPlateCrossing run after the test of the end of the pitch: it no
\* longer sees a ball that is beyond plateZ + 1.0.
CrossesPlateAfterFinish(prev, curr, crossed, active, contact) ==
  /\ ~(crossed \/ ~active \/ contact)
  /\ prev.z < plateZ
  /\ curr.z >= plateZ
  /\ curr.z <= strikeZoneCenterZ + 100

\* Game._checkPlateCrossing: did the ball cross the plate plane from prev to
\* curr, counted only the first time of a pitch.
CrossesPlate(prev, curr, crossed, active, contact) ==
  /\ ~(crossed \/ ~active \/ contact)
  /\ prev.z < plateZ
  /\ curr.z >= plateZ

\* Game._checkPlateCrossing: lerpVectors(prev, curr, t) with
\* t = (plateZ - prevZ) / (currZ - prevZ).
Intersection(prev, curr) ==
  LET num == plateZ - prev.z
      den == curr.z - prev.z
  IN Vec(prev.x + RDiv((curr.x - prev.x) * num, den),
         prev.y + RDiv((curr.y - prev.y) * num, den),
         prev.z + RDiv((curr.z - prev.z) * num, den))

\* Game._updatePitching: the test that ends a pitch.
FinishedDistance(pos, active) ==
  pos.z > strikeZoneCenterZ + 100 \/ pos.y < 0 \/ ~active

\* _finishPitchWithoutContact that looks at the swing before the call.
FinishOutcomeSwingFirst(call, swung, label, s, o) ==
  IF swung
  THEN [strikes |-> AddStrike(s, o).strikes, outs |-> AddStrike(s, o).outs,
        lastResult |-> "Strike (swinging)"]
  ELSE IF call = "Ball"
  THEN [strikes |-> s, outs |-> o,
        lastResult |-> IF label # "" THEN label ELSE "Ball"]
  ELSE IF call = "Strike"
  THEN [strikes |-> AddStrike(s, o).strikes, outs |-> AddStrike(s, o).outs,
        lastResult |-> "Strike (looking)"]
  ELSE [strikes |-> s, outs |-> o,
        lastResult |-> IF label # "" THEN label ELSE "Miss"]

\* _finishPitchWithoutContact that treats a labelled pitch as a ball before
\* it looks at the swing.
FinishOutcomeLabelFirst(call, swung, label, s, o) ==
  IF call = "Ball" \/ label # ""
  THEN [strikes |-> s, outs |-> o,
        lastResult |-> IF label # "" THEN label ELSE "Ball"]
  ELSE IF swung
  THEN [strikes |-> AddStrike(s, o).strikes, outs |-> AddStrike(s, o).outs,
        lastResult |-> "Strike (swinging)"]
  ELSE IF call = "Strike"
  THEN [strikes |-> AddStrike(s, o).strikes, outs |-> AddStrike(s, o).outs,
        lastResult |-> "Strike (looking)"]
  ELSE [strikes |-> s, outs |-> o, lastResult |-> "Miss"]

\* Game._finishPitchWithoutContact: the new strikes, outs and lastResult.
\* label is the optional label, "" when none is given.
FinishOutcome(call, swung, label, s, o) ==
  IF call = "Ball"
  THEN [strikes |-> s, outs |-> o,
        lastResult |-> IF label # "" THEN label ELSE "Ball"]
  ELSE IF swung
  THEN [strikes |-> AddStrike(s, o).strikes, outs |-> AddStrike(s, o).outs,
        lastResult |-> "Strike (swinging)"]
  ELSE IF call = "Strike"
  THEN [strikes |-> AddStrike(s, o).strikes, outs |-> AddStrike(s, o).outs,
        lastResult |-> "Strike (looking)"]
  ELSE [strikes |-> s, outs |-> o,
        lastResult |-> IF label # "" THEN label ELSE "Miss"]

\* requestPitch without its early return.
PitchAllowedAlways(st) == st \in GAME_STATES

\* requestPitch that also starts a pitch during the result dwell.
PitchAllowedInResult(st) == st = "IDLE" \/ st = "RESULT"

\* Game.requestPitch: the states in which a request starts a pitch.
PitchAllowed(st) == st = "IDLE"

\* handleSwing without its test of the game state.
SwingCountsAlways(st) == st \in GAME_STATES

\* Game.handleSwing: the states in which a swing counts for the pitch.
SwingCounts(st) == st = "PITCHING" \/ st = "SWINGING"

\* The contact test that does not look at the strike-zone rectangle.
ContactMadeNoRect(active, pos, rectOk, dist) ==
  /\ active
  /\ Abs(pos.z - plateZ) <= swingTimingWindowZ
  /\ dist <= maxScreenDistForHit

\* Game._tryScreenSpaceContact: is there contact. rectOk says the strike-zone
\* rectangle of the page is there with a width and a height; dist is the
\* distance between the projected ball and the reticle in that rectangle.
ContactMade(active, pos, rectOk, dist) ==
  /\ active
  /\ Abs(pos.z - plateZ) <= swingTimingWindowZ
  /\ rectOk
  /\ dist <= maxScreenDistForHit

\* The quality without the inner threshold of a perfect contact.
ContactQualityNoPerfect(dist) ==
  RDiv(Clamp(1000 - RDiv(dist * 1000, maxScreenDistForHit), 0, 1000) * 7, 10)

\* Game._tryScreenSpaceContact: the quality handed to _onContact.
ContactQuality(dist) ==
  LET distFactor == Clamp(1000 - RDiv(dist * 1000, maxScreenDistForHit), 0, 1000)
  IN IF dist <= maxScreenDistForPerfect THEN 1000
     ELSE RDiv(distFactor * 7, 10)

\* Game._onContact: exit speed in 1/1000 mph.
ExitMph(quality) == 65000 + 45 * Clamp(quality, 0, 1000)

\* Game._onContact: the launch velocity. spray is the random spray angle.
LaunchVelocity(pos, quality, spray) ==
  LET q == Clamp(quality, 0, 1000)
      exitMs == RDiv(RDiv(ExitMph(q), 10) * MPH_TO_MS, 100000)
      launchAngleDeg == Clamp(RDiv(8000 + 20 * q, 1000), 0, 35)
      timingOffset == pos.z - plateZ
      sideAngle == RDiv(30 * Clamp(0 - timingOffset, 0 - swingTimingWindowZ,
                                   swingTimingWindowZ), swingTimingWindowZ)
      yaw == sideAngle + spray
      horiz == RDiv(exitMs * Cos(launchAngleDeg), 1000)
  IN Vec(RDiv((0 - horiz) * Sin(yaw), 1000),
         RDiv(exitMs * Sin(launchAngleDeg), 1000),
         RDiv((0 - horiz) * Cos(yaw), 1000))

\* Game._onContact: the result label.
ContactLabel(quality) ==
  IF Clamp(quality, 0, 1000) > 850 THEN "Perfect contact" ELSE "In play"

\* The landing distance measured from the origin instead of the plate.
LandingDistanceFromOrigin(p) ==
  RDiv(Sqrt(p.x * p.x + p.z * p.z) * FT_PER_M, 1000)

\* Game._updateBallInPlay: the landing distance from the plate in 1/100 ft.
LandingDistanceFeet(p) ==
  LET dx == p.x
      dz == p.z - plateZ
      horizDistM == Sqrt(dx * dx + dz * dz)
  IN RDiv(horizDistM * FT_PER_M, 1000)

\* Game._updateBallInPlay: the points of a landed hit.
Points(distFeet, exitMph) ==
  LET distanceScore == distFeet * 5
      exitBonus == RDiv(Max(0, exitMph - 60000) * 11, 10)
  IN RDiv(distanceScore + exitBonus, 1000)

\* _updateBallInPlay that takes the points off the score.
LandedScoreSubtract(sc, fair, distFeet, exitMph) ==
  IF fair /\ distFeet > 0 THEN sc - Points(distFeet, exitMph) ELSE sc

\* Game._updateBallInPlay: the new score when the ball lands.
LandedScore(sc, fair, distFeet, exitMph) ==
  IF fair /\ distFeet > 0 THEN sc + Points(distFeet, exitMph) ELSE sc

----------------------------------------------------------------------------
(* PitcherAI (src/unnamed/part_000): the weighted choice of a pitch.       *)

\* PitcherAI.pitchDefs: code and usageWeight, the weight in 1/1000.
pitchDefs ==
  << [code |-> "FOUR_SEAM", usageWeight |-> 500],
     [code |-> "SLIDER", usageWeight |-> 200],
     [code |-> "CURVE", usageWeight |-> 150],
     [code |-> "CHANGEUP", usageWeight |-> 150] >>

\* list.reduce((sum, p) => sum + p.usageWeight, 0)
RECURSIVE TotalWeight(_)
TotalWeight(list) ==
  IF list = << >> THEN 0 ELSE Head(list).usageWeight + TotalWeight(Tail(list))

\* The loop of _chooseWeightedRandom with <= for <.
RECURSIVE WalkInclusive(_, _, _)
WalkInclusive(list, r, i) ==
  IF i > Len(list) THEN list[Len(list)]
  ELSE IF r <= list[i].usageWeight THEN list[i]
  ELSE WalkInclusive(list, r - list[i].usageWeight, i + 1)

\* The loop of _chooseWeightedRandom from item i on, with what is left of r,
\* and the fallback to the last item.
RECURSIVE Walk(_, _, _)
Walk(list, r, i) ==
  IF i > Len(list) THEN list[Len(list)]
  ELSE IF r < list[i].usageWeight THEN list[i]
  ELSE Walk(list, r - list[i].usageWeight, i + 1)

\* _chooseWeightedRandom that takes an item when r equals its weight.
ChooseWeightedInclusive(list, r) == WalkInclusive(list, r, 1)

\* PitcherAI._chooseWeightedRandom(list) with the draw r.
ChooseWeightedRandom(list, r) == Walk(list, r, 1)

----------------------------------------------------------------------------
(* Game._startPitch: the pitches.                                          *)

\* The ranges _startPitch draws a pitch from: speed (mph), break (cm/s^2),
\* gravity scale (percent) and the point of the plate plane it is aimed at,
\* inside the zone for a strike intent, off one of its four sides otherwise.
PitchInRange(p) ==
  LET off == strikeZoneHeight \div 2
      t == p.target
      centred(spread) == /\ 2 * (t.y - strikeZoneCenterY) >= 0 - spread
                         /\ 2 * (t.y - strikeZoneCenterY) <= spread
      strikeIntent == /\ 10 * t.x >= 6 * zoneLeftX /\ 10 * t.x <= 6 * zoneRightX
                      /\ centred((strikeZoneHeight * 4) \div 10)
      high == /\ 10 * t.x >= 8 * zoneLeftX /\ 10 * t.x <= 8 * zoneRightX
              /\ t.y = zoneTopY + off
      low == /\ 10 * t.x >= 8 * zoneLeftX /\ 10 * t.x <= 8 * zoneRightX
             /\ t.y = zoneBottomY - off
      inside == t.x = zoneRightX + off /\ centred((strikeZoneHeight * 2) \div 10)
      away == t.x = zoneLeftX - off /\ centred((strikeZoneHeight * 2) \div 10)
  IN /\ p.speedMph >= 88 /\ p.speedMph <= 97
     /\ p.moveX >= -90 /\ p.moveX <= 90
     /\ p.moveY >= -100 /\ p.moveY <= 20
     /\ p.gravityScale >= 55 /\ p.gravityScale <= 90
     /\ t.z = strikeZoneCenterZ
     /\ (strikeIntent \/ high \/ low \/ inside \/ away)

\* The pitches explored: one aimed high that drops into the zone and crosses
\* the plate exactly on the right edge of the zone (x = zoneRightX), one aimed
\* high that crosses it 1 cm outside that edge, one aimed at the zone that
\* drops under it, one aimed low that lands before the plate.
PitchSamples ==
  { p \in
      { [speedMph |-> 89, moveX |-> 90, moveY |-> -100, gravityScale |-> 55,
         target |-> Vec(18, 190, plateZ)],
        [speedMph |-> 92, moveX |-> 90, moveY |-> 20, gravityScale |-> 55,
         target |-> Vec(19, 190, plateZ)],
        [speedMph |-> 88, moveX |-> 0, moveY |-> 20, gravityScale |-> 55,
         target |-> Vec(10, 110, plateZ)],
        [speedMph |-> 97, moveX |-> 0, moveY |-> -100, gravityScale |-> 90,
         target |-> Vec(0, 30, plateZ)] } : PitchInRange(p) }

\* Distances between the projected ball and the reticle, in 1/1000 of the
\* strike-zone rectangle: perfect, the edge of perfect, a hit, the edge of a
\* hit, a miss.
DistSet == {70, 125, 181}

\* The random spray of a batted ball, randFloatSpread(4 degrees).
SpraySet == {-2, 2}

----------------------------------------------------------------------------
(* The state after construction (Game.constructor, Ball and Bat             *)
(* constructors).                                                           *)

Init ==
  /\ state = "IDLE"
  /\ stateTimer = 0
  /\ score = 0
  /\ strikes = 0
  /\ outs = 0
  /\ lastResult = "Ready"
  /\ lastExitMph = 0
  /\ lastHitDistanceFeet = 0
  /\ lastWasFairHit = FALSE
  /\ currentPitchCall = NoCall
  /\ currentPitchHasCrossedPlate = FALSE
  /\ swingUsedThisPitch = FALSE
  /\ hadContactThisPitch = FALSE
  /\ pitchMoveXPerSec = 0
  /\ pitchMoveYPerSec = 0
  /\ pitchGravityScale = 75
  /\ ballPos = offField
  /\ ballVel = Vec(0, 0, 0)
  /\ isActive = FALSE
  /\ isHit = FALSE
  /\ swingActive = FALSE
  /\ swingTime = 0
  /\ aiDraw = 0
  /\ aiChoice = ""

----------------------------------------------------------------------------
(* Operations.                                                             *)

\* _startPitch that does not reset hadContactThisPitch.
StartPitchKeepsContact(p) ==
  /\ state' = "PITCHING"
  /\ stateTimer' = 0
  /\ pitchMoveXPerSec' = p.moveX
  /\ pitchMoveYPerSec' = p.moveY
  /\ pitchGravityScale' = p.gravityScale
  /\ ballPos' = pitcherPosition
  /\ ballVel' = PitchVelocity(p.speedMph, p.target)
  /\ isActive' = TRUE
  /\ isHit' = FALSE
  /\ currentPitchCall' = NoCall
  /\ currentPitchHasCrossedPlate' = FALSE
  /\ swingUsedThisPitch' = FALSE
  /\ lastResult' = "Pitching"
  /\ UNCHANGED <<score, strikes, outs, lastExitMph, lastHitDistanceFeet,
                 lastWasFairHit, hadContactThisPitch, batVars>>

\* Game._startPitch with the pitch p.
StartPitch(p) ==
  /\ state' = "PITCHING"
  /\ stateTimer' = 0
  /\ pitchMoveXPerSec' = p.moveX
  /\ pitchMoveYPerSec' = p.moveY
  /\ pitchGravityScale' = p.gravityScale
  /\ ballPos' = pitcherPosition
  /\ ballVel' = PitchVelocity(p.speedMph, p.target)
  /\ isActive' = TRUE
  /\ isHit' = FALSE
  /\ currentPitchCall' = NoCall
  /\ currentPitchHasCrossedPlate' = FALSE
  /\ swingUsedThisPitch' = FALSE
  /\ hadContactThisPitch' = FALSE
  /\ lastResult' = "Pitching"
  /\ UNCHANGED <<score, strikes, outs, lastExitMph, lastHitDistanceFeet,
                 lastWasFairHit, batVars>>

\* Game.requestPitch
RequestPitch ==
  IF ~PitchAllowed(state) THEN UNCHANGED vars
  ELSE /\ outs < MaxOuts
       /\ score <= MaxScore
       /\ \E p \in PitchSamples : StartPitch(p)
       /\ UNCHANGED aiVars

\* Game._updatePitching, with _checkPlateCrossing and
\* _finishPitchWithoutContact.
UpdatePitching(dt) ==
  LET prevPos == ballPos
      b == BallUpdate(ballPos, ballVel, isActive, dt,
                      RDiv(gravity * pitchGravityScale, 100), pitchDragCoeff)
      vel == [b.vel EXCEPT !.x = @ + RDiv(pitchMoveXPerSec * dt, 1000),
                           !.y = @ + RDiv(pitchMoveYPerSec * dt, 1000)]
      pos == b.pos
      crossing == CrossesPlate(prevPos, pos, currentPitchHasCrossedPlate,
                               isActive, hadContactThisPitch)
      call == IF crossing THEN CallPitchAtPlate(Intersection(prevPos, pos))
              ELSE currentPitchCall
      label == IF pos.y < 0 THEN "In the dirt" ELSE ""
      out == FinishOutcome(call, swingUsedThisPitch, label, strikes, outs)
  IN /\ ballVel' = vel
     /\ currentPitchCall' = call
     /\ currentPitchHasCrossedPlate' = (currentPitchHasCrossedPlate \/ crossing)
     /\ isHit' = isHit
     /\ UNCHANGED <<score, lastExitMph, lastHitDistanceFeet, lastWasFairHit,
                    swingUsedThisPitch, hadContactThisPitch, pitchMoveXPerSec,
                    pitchMoveYPerSec, pitchGravityScale>>
     /\ IF FinishedDistance(pos, isActive) /\ ~hadContactThisPitch
        THEN /\ strikes' = out.strikes
             /\ outs' = out.outs
             /\ lastResult' = out.lastResult
             /\ isActive' = FALSE
             /\ ballPos' = offField
             /\ state' = "RESULT"
             /\ stateTimer' = 0
        ELSE /\ ballPos' = pos
             /\ stateTimer' = stateTimer + dt
             /\ UNCHANGED <<strikes, outs, lastResult, isActive, state>>

\* Game._updateBallInPlay: p.lengthSq() > maxDistance * maxDistance. A
\* coordinate beyond maxDistance decides it before the squares are taken.
BeyondDistance(p, maxDistance) ==
  \/ Abs(p.x) > maxDistance
  \/ Abs(p.y) > maxDistance
  \/ Abs(p.z) > maxDistance
  \/ LengthSq(p) > maxDistance * maxDistance

\* Game._updateBallInPlay
UpdateBallInPlay(dt) ==
  LET b == BallUpdate(ballPos, ballVel, isActive, dt, gravity, flightDragCoeff)
      p == b.pos
      maxDistance == 15000
      dist == LandingDistanceFeet(p)
  IN /\ UNCHANGED <<strikes, outs, lastResult, lastExitMph, lastWasFairHit,
                    currentPitchCall, currentPitchHasCrossedPlate,
                    swingUsedThisPitch, hadContactThisPitch, pitchMoveXPerSec,
                    pitchMoveYPerSec, pitchGravityScale, isHit>>
     /\ IF ~isActive
        THEN /\ state' = "RESULT"
             /\ stateTimer' = 0
             /\ UNCHANGED <<score, lastHitDistanceFeet, ballPos, ballVel,
                            isActive>>
        ELSE /\ ballPos' = p
             /\ ballVel' = b.vel
             /\ IF p.y <= 0
                THEN /\ lastHitDistanceFeet' = dist
                     /\ score' = LandedScore(score, lastWasFairHit, dist,
                                             lastExitMph)
                     /\ isActive' = FALSE
                     /\ state' = "RESULT"
                     /\ stateTimer' = 0
                ELSE IF BeyondDistance(p, maxDistance)
                THEN /\ isActive' = FALSE
                     /\ state' = "RESULT"
                     /\ stateTimer' = 0
                     /\ UNCHANGED <<score, lastHitDistanceFeet>>
                ELSE /\ stateTimer' = stateTimer + dt
                     /\ UNCHANGED <<score, lastHitDistanceFeet, isActive,
                                    state>>

\* The dwell test with > instead of >=.
DwellOverStrict(timer) == timer > resultDelay

\* Game.update in RESULT: the dwell is over.
DwellOver(timer) == timer >= resultDelay

\* update in RESULT that starts the dwell again when it is over instead of
\* calling _toIdle.
UpdateResultRestart(dt) ==
  /\ stateTimer' = (IF DwellOver(stateTimer + dt) THEN 0 ELSE stateTimer + dt)
  /\ UNCHANGED <<state, score, strikes, outs, lastResult, lastExitMph,
                 lastHitDistanceFeet, lastWasFairHit, currentPitchCall,
                 currentPitchHasCrossedPlate, swingUsedThisPitch,
                 hadContactThisPitch, pitchMoveXPerSec, pitchMoveYPerSec,
                 pitchGravityScale, ballVars>>

\* Game._toIdle, reached from Game.update in RESULT once the dwell is over.
UpdateResult(dt) ==
  IF DwellOver(stateTimer + dt)
  THEN /\ state' = "IDLE"
       /\ stateTimer' = 0
       /\ ballPos' = (IF ~isActive THEN offField ELSE ballPos)
       /\ currentPitchCall' = NoCall
       /\ UNCHANGED <<score, strikes, outs, lastResult, lastExitMph,
                      lastHitDistanceFeet, lastWasFairHit,
                      currentPitchHasCrossedPlate, swingUsedThisPitch,
                      hadContactThisPitch, pitchMoveXPerSec, pitchMoveYPerSec,
                      pitchGravityScale, ballVel, isActive, isHit>>
  ELSE /\ stateTimer' = stateTimer + dt
       /\ UNCHANGED <<state, score, strikes, outs, lastResult, lastExitMph,
                      lastHitDistanceFeet, lastWasFairHit, currentPitchCall,
                      currentPitchHasCrossedPlate, swingUsedThisPitch,
                      hadContactThisPitch, pitchMoveXPerSec, pitchMoveYPerSec,
                      pitchGravityScale, ballVars>>

\* Game.update in IDLE: only the timer runs.
UpdateIdle(dt) ==
  /\ stateTimer' = stateTimer + dt
  /\ UNCHANGED <<state, score, strikes, outs, lastResult, lastExitMph,
                 lastHitDistanceFeet, lastWasFairHit, currentPitchCall,
                 currentPitchHasCrossedPlate, swingUsedThisPitch,
                 hadContactThisPitch, pitchMoveXPerSec, pitchMoveYPerSec,
                 pitchGravityScale, ballVars>>

\* Game.update(dt): one tick of the animation loop.
Tick(dt) ==
  /\ state = "IDLE" => stateTimer + dt <= MaxIdleMs
  /\ isActive =>
       \/ dt = DtFrame
       \/ state = "BALL_IN_PLAY" /\ stateTimer = 0 /\ dt = DtLong
       \/ /\ state \in {"PITCHING", "SWINGING"}
          /\ dt = DtSlow
          /\ ballPos.z < plateZ
          /\ BallUpdate(ballPos, ballVel, isActive, dt,
                        RDiv(gravity * pitchGravityScale, 100),
                        pitchDragCoeff).pos.z > strikeZoneCenterZ + 100
  /\ CASE state = "IDLE" -> UpdateIdle(dt)
       [] state \in {"PITCHING", "SWINGING"} -> UpdatePitching(dt)
       [] state = "BALL_IN_PLAY" -> UpdateBallInPlay(dt)
       [] state = "RESULT" -> UpdateResult(dt)
  /\ swingActive' = BatUpdate(swingActive, swingTime, dt).swingActive
  /\ swingTime' = BatUpdate(swingActive, swingTime, dt).swingTime
  /\ UNCHANGED aiVars

\* _onContact with a launch that leaves the ball inactive.
OnContactInactive(pos, quality, spray) ==
  /\ hadContactThisPitch' = TRUE
  /\ lastExitMph' = ExitMph(quality)
  /\ ballVel' = LaunchVelocity(pos, quality, spray)
  /\ isHit' = TRUE
  /\ isActive' = FALSE
  /\ lastWasFairHit' = TRUE
  /\ lastResult' = ContactLabel(quality)
  /\ state' = "BALL_IN_PLAY"
  /\ stateTimer' = 0

\* Game._onContact
OnContact(pos, quality, spray) ==
  /\ hadContactThisPitch' = TRUE
  /\ lastExitMph' = ExitMph(quality)
  /\ ballVel' = LaunchVelocity(pos, quality, spray)
  /\ isHit' = TRUE
  /\ isActive' = TRUE
  /\ lastWasFairHit' = TRUE
  /\ lastResult' = ContactLabel(quality)
  /\ state' = "BALL_IN_PLAY"
  /\ stateTimer' = 0

\* handleSwing without its test of swingUsedThisPitch.
HandleSwingEveryTime(rectOk, dist, spray) ==
  /\ swingActive' = StartSwing(swingActive, swingTime).swingActive
  /\ swingTime' = StartSwing(swingActive, swingTime).swingTime
  /\ UNCHANGED <<score, strikes, outs, lastHitDistanceFeet, currentPitchCall,
                 currentPitchHasCrossedPlate, pitchMoveXPerSec,
                 pitchMoveYPerSec, pitchGravityScale, ballPos, aiVars>>
  /\ IF SwingCounts(state)
     THEN /\ swingUsedThisPitch' = TRUE
          /\ IF ContactMade(isActive, ballPos, rectOk, dist)
             THEN OnContact(ballPos, ContactQuality(dist), spray)
             ELSE /\ state' = "SWINGING"
                  /\ lastResult' = "Swinging..."
                  /\ UNCHANGED <<stateTimer, lastExitMph, lastWasFairHit,
                                 hadContactThisPitch, ballVel, isActive,
                                 isHit>>
     ELSE UNCHANGED <<state, stateTimer, lastResult, lastExitMph,
                      lastWasFairHit, swingUsedThisPitch, hadContactThisPitch,
                      ballVel, isActive, isHit>>

\* Game.handleSwing. rectOk, dist and spray are what the page and the random
\* generator give this swing: whether the strike-zone rectangle is there, the
\* distance between ball and reticle in it, the spray angle.
HandleSwingWith(rectOk, dist, spray) ==
  /\ swingActive' = StartSwing(swingActive, swingTime).swingActive
  /\ swingTime' = StartSwing(swingActive, swingTime).swingTime
  /\ UNCHANGED <<score, strikes, outs, lastHitDistanceFeet, currentPitchCall,
                 currentPitchHasCrossedPlate, pitchMoveXPerSec,
                 pitchMoveYPerSec, pitchGravityScale, ballPos, aiVars>>
  /\ IF SwingCounts(state) /\ ~swingUsedThisPitch
     THEN /\ swingUsedThisPitch' = TRUE
          /\ IF ContactMade(isActive, ballPos, rectOk, dist)
             THEN OnContact(ballPos, ContactQuality(dist), spray)
             ELSE /\ state' = "SWINGING"
                  /\ lastResult' = "Swinging..."
                  /\ UNCHANGED <<stateTimer, lastExitMph, lastWasFairHit,
                                 hadContactThisPitch, ballVel, isActive,
                                 isHit>>
     ELSE UNCHANGED <<state, stateTimer, lastResult, lastExitMph,
                      lastWasFairHit, swingUsedThisPitch, hadContactThisPitch,
                      ballVel, isActive, isHit>>

\* Game.handleSwing, whatever the page and the random generator give it. The
\* inputs are drawn where handleSwing reads them: rectangle and distance by a
\* swing that counts, the spray angle by a swing that makes contact; where it
\* does not read them one value stands for all.
HandleSwing ==
  IF SwingCounts(state) /\ ~swingUsedThisPitch
  THEN \E rectOk \in BOOLEAN, dist \in DistSet :
         IF ContactMade(isActive, ballPos, rectOk, dist)
         THEN \E spray \in SpraySet : HandleSwingWith(rectOk, dist, spray)
         ELSE HandleSwingWith(rectOk, dist, CHOOSE spray \in SpraySet : TRUE)
  ELSE HandleSwingWith(TRUE, CHOOSE dist \in DistSet : dist <= maxScreenDistForHit,
                       CHOOSE spray \in SpraySet : TRUE)

Next ==
  \/ \E dt \in DtSet : Tick(dt)
  \/ RequestPitch
  \/ HandleSwing

Spec == Init /\ [][Next]_vars

\* Game.requestPitch while nothing has been counted yet: the pitches of a game
\* up to the first strike or the first points.
RequestFirstPitch ==
  /\ score = 0 /\ strikes = 0 /\ outs = 0
  /\ RequestPitch

NextLive ==
  \/ \E dt \in DtSet : Tick(dt)
  \/ RequestFirstPitch
  \/ HandleSwing

\* The animation loop of main.js asks for the next frame at the end of every
\* frame: update(dt) is called again and again, with a dt of DtSet, while
\* requestPitch and handleSwing are called at any time or never.
SpecLive == Init /\ [][NextLive]_vars /\ WF_vars(\E dt \in DtSet : Tick(dt))

\* PitcherAI.chooseNextPitch: the choice of the definition. The game does not
\* use the PitcherAI; it is explored on its own.
ChooseNextPitch ==
  /\ \E r \in 0 .. (TotalWeight(pitchDefs) - 1) :
       /\ aiDraw' = r
       /\ aiChoice' = ChooseWeightedRandom(pitchDefs, r).code
  /\ UNCHANGED <<gameVars, ballVars, batVars>>

NextAI == ChooseNextPitch

SpecAI == Init /\ [][NextAI]_vars

----------------------------------------------------------------------------
(* Steps the properties speak about.                                       *)

PitchStates == {"PITCHING", "SWINGING"}

\* A step of update(dt), of any frame time.
TickStep == \E dt \in DtSet : Tick(dt)

\* A step that ends a pitch without contact: the game leaves PITCHING or
\* SWINGING other than into BALL_IN_PLAY, or the ball of the pitch is
\* deactivated.
PitchEnds ==
  /\ state \in PitchStates
  /\ \/ state' \notin (PitchStates \cup {"BALL_IN_PLAY"})
     \/ isActive /\ ~isActive'

\* Exactly one strike is registered by the step.
OneStrike ==
  \/ strikes + 1 < maxStrikes /\ strikes' = strikes + 1 /\ outs' = outs
  \/ strikes + 1 = maxStrikes /\ strikes' = 0 /\ outs' = outs + 1

NoStrike == strikes' = strikes /\ outs' = outs

\* Where update(dt) puts the ball of a pitch in flight, before the pitch is
\* adjudicated.
PitchPosAfter(dt) ==
  BallUpdate(ballPos, ballVel, isActive, dt,
             RDiv(gravity * pitchGravityScale, 100), pitchDragCoeff).pos

----------------------------------------------------------------------------
(* Properties.                                                             *)

\* C1: a pitch that ends without contact is decided in this order: called
\* "Ball" -> a ball, strikes and outs unchanged, even if the batter swung;
\* else the batter swung -> one strike, "Strike (swinging)"; else called
\* "Strike" -> one strike, "Strike (looking)"; else a generic miss, strikes and
\* outs unchanged. In every case the ball is deactivated and the state is
\* RESULT.
C1_FinishPriority ==
  [][PitchEnds =>
       /\ state' = "RESULT"
       /\ ~isActive'
       /\ IF currentPitchCall' = "Ball"
          THEN NoStrike /\ lastResult' \in {"Ball", "In the dirt"}
          ELSE IF swingUsedThisPitch
          THEN OneStrike /\ lastResult' = "Strike (swinging)"
          ELSE IF currentPitchCall' = "Strike"
          THEN OneStrike /\ lastResult' = "Strike (looking)"
          ELSE NoStrike /\ lastResult' \in {"Miss", "In the dirt"}]_vars

\* A pitch called "Ball" that the batter swung at has ended as a ball.
C1_Witness ==
  /\ state = "RESULT"
  /\ lastResult = "Ball"
  /\ swingUsedThisPitch
  /\ ~hadContactThisPitch

\* C2: registering a strike adds 1 to strikes and, when that makes maxStrikes,
\* resets strikes to 0 and adds exactly 1 to outs; strikes and outs change in
\* no other way, so three strike outcomes in a row from strikes = 0 give
\* strikes = 0 and one more out, the first two leaving outs as it was.
C2_AddStrike ==
  [][IF PitchEnds /\ lastResult' \in {"Strike (swinging)", "Strike (looking)"}
     THEN /\ strikes + 1 < maxStrikes => strikes' = strikes + 1 /\ outs' = outs
          /\ strikes + 1 = maxStrikes => strikes' = 0 /\ outs' = outs + 1
     ELSE strikes' = strikes /\ outs' = outs]_vars

\* The third swinging strike has made an out and reset the strikes.
C2_Witness ==
  /\ state = "RESULT"
  /\ lastResult = "Strike (swinging)"
  /\ strikes = 0
  /\ outs = 1

\* C3: strikes is always in 0 .. maxStrikes - 1.
C3_StrikesInRange == strikes \in 0 .. (maxStrikes - 1)

\* A third strike, looking, has been registered.
C3_Witness ==
  /\ lastResult = "Strike (looking)"
  /\ strikes = 0
  /\ outs = 1

\* C4: outs and score are never negative and no step decreases either.
C4_Monotonic ==
  /\ outs >= 0 /\ score >= 0
  /\ [][outs' >= outs /\ score' >= score /\ outs' >= 0 /\ score' >= 0]_vars

\* A hit has scored and, later, an out has been made.
C4_Witness == score > 0 /\ outs > 0

\* C5: requestPitch outside IDLE changes nothing; in IDLE it starts a pitch:
\* PITCHING, the ball active, un-struck, at the pitcher position, the call and
\* the per-pitch flags reset.
C5_RequestPitch ==
  [][RequestPitch =>
       IF state # "IDLE" THEN UNCHANGED vars
       ELSE /\ state' = "PITCHING"
            /\ isActive' /\ ~isHit'
            /\ ballPos' = pitcherPosition
            /\ currentPitchCall' = NoCall
            /\ ~currentPitchHasCrossedPlate'
            /\ ~swingUsedThisPitch'
            /\ ~hadContactThisPitch'
            /\ UNCHANGED <<score, strikes, outs>>]_vars

\* A pitch has just been started after an earlier pitch was hit.
C5_Witness ==
  /\ state = "PITCHING"
  /\ ballPos = pitcherPosition
  /\ ~hadContactThisPitch
  /\ score > 0

\* C6: a swing in IDLE, BALL_IN_PLAY or RESULT changes nothing of the game or
\* the ball; only the bat may start to swing.
C6_SwingOutsidePitch ==
  [][(HandleSwing /\ state \in {"IDLE", "BALL_IN_PLAY", "RESULT"}) =>
       UNCHANGED <<gameVars, ballVars>>]_vars

\* A swing has just been started during the result dwell.
C6_Witness ==
  /\ state = "RESULT"
  /\ stateTimer > 0
  /\ swingActive
  /\ swingTime = 0

\* C7: the state is one of the five, and it changes only by IDLE -> PITCHING
\* (requestPitch), PITCHING -> SWINGING (handleSwing), PITCHING or SWINGING ->
\* BALL_IN_PLAY (handleSwing, with contact), PITCHING or SWINGING -> RESULT
\* (tick), BALL_IN_PLAY -> RESULT (tick), RESULT -> IDLE (tick).
C7_Transitions ==
  /\ [](state \in GAME_STATES)
  /\ [][state' # state =>
          \/ state = "IDLE" /\ state' = "PITCHING" /\ RequestPitch
          \/ state = "PITCHING" /\ state' = "SWINGING" /\ HandleSwing
          \/ /\ state \in PitchStates /\ state' = "BALL_IN_PLAY"
             /\ HandleSwing /\ hadContactThisPitch'
          \/ state \in PitchStates /\ state' = "RESULT" /\ TickStep
          \/ state = "BALL_IN_PLAY" /\ state' = "RESULT" /\ TickStep
          \/ state = "RESULT" /\ state' = "IDLE" /\ TickStep]_vars

\* The game is back in IDLE after a pitch that was hit.
C7_Witness == state = "IDLE" /\ isHit /\ hadContactThisPitch

\* C8: with no swing, a pitch that crosses the plate inside the strike zone is
\* called "Strike" on the crossing tick, and when the ball then passes
\* plateZ + 1.0 the result is "Strike (looking)", the state RESULT, and from
\* strikes = 0 strikes becomes 1 with outs unchanged.
C8_CalledStrike ==
  [][\A dt \in DtSet :
       (state = "PITCHING" /\ ~swingUsedThisPitch /\ Tick(dt)) =>
         LET pos == PitchPosAfter(dt)
             point == Intersection(ballPos, pos)
         IN /\ ( /\ ~currentPitchHasCrossedPlate
                 /\ ballPos.z < plateZ /\ pos.z >= plateZ
                 /\ point.x >= zoneLeftX /\ point.x <= zoneRightX
                 /\ point.y >= zoneBottomY /\ point.y <= zoneTopY )
               => currentPitchCall' = "Strike"
            /\ (currentPitchCall' = "Strike" /\ pos.z > plateZ + 100)
               => /\ state' = "RESULT"
                  /\ lastResult' = "Strike (looking)"
                  /\ strikes = 0 => strikes' = 1 /\ outs' = outs]_vars

\* The first pitch of an at-bat has ended as a called strike.
C8_Witness ==
  /\ state = "RESULT"
  /\ lastResult = "Strike (looking)"
  /\ ~swingUsedThisPitch
  /\ strikes = 1
  /\ outs = 0

\* The step that ends a pitch whose ball fell under the ground before it
\* reached the plate plane: no call was recorded.
DirtBeforePlate ==
  /\ state \in PitchStates
  /\ state' = "RESULT"
  /\ currentPitchCall' = NoCall
  /\ \E dt \in DtSet : Tick(dt) /\ PitchPosAfter(dt).y < 0

\* C9 as claimed: a pitch that falls under the ground before it reaches the
\* plate ends with strikes and outs unchanged, whether or not the batter
\* swung.
C9_DirtIsBall == [][DirtBeforePlate => NoStrike]_vars

\* C9 amended: such a pitch ends "In the dirt" with strikes and outs unchanged
\* when the batter did not swing at it, and as "Strike (swinging)" with one
\* strike registered when the batter swung.
C9_DirtUnlessSwung ==
  [][DirtBeforePlate =>
       IF swingUsedThisPitch
       THEN OneStrike /\ lastResult' = "Strike (swinging)"
       ELSE NoStrike /\ lastResult' = "In the dirt"]_vars

\* A pitch the batter swung at has fallen under the ground before the plate
\* and has ended as a swinging strike.
C9_Witness ==
  /\ state = "RESULT"
  /\ currentPitchCall = NoCall
  /\ lastResult = "Strike (swinging)"
  /\ swingUsedThisPitch
  /\ ~hadContactThisPitch

\* C10 as claimed: contact is made only by a swing whose contact window
\* (Bat.isInContactWindow) is open when contact is tried.
C10_ContactOnlyInWindow ==
  [][(~hadContactThisPitch /\ hadContactThisPitch') =>
       IsInContactWindow(swingActive', swingTime')]_vars

\* A step on which the bat meets the ball with a quality under 0.25, which
\* section 4.5 of the specification makes a foul. The quality is read back
\* from the exit speed _onContact records.
FoulContact ==
  /\ ~hadContactThisPitch
  /\ hadContactThisPitch'
  /\ lastExitMph' < ExitMph(250)

\* C11 as claimed: a contact that resolves as a foul awards no score and does
\* not go to ball-in-play tracking; it adds 1 to strikes when strikes < 2 and
\* leaves strikes and outs unchanged when strikes = 2.
C11_FoulIsStrike ==
  [][FoulContact =>
       /\ ~lastWasFairHit'
       /\ state' # "BALL_IN_PLAY"
       /\ score' = score
       /\ outs' = outs
       /\ strikes' = (IF strikes < maxStrikes - 1 THEN strikes + 1
                      ELSE strikes)]_vars

\* The tick on which a batted ball comes down to the ground.
Landing ==
  /\ state = "BALL_IN_PLAY"
  /\ isActive
  /\ TickStep
  /\ ballPos'.y <= 0

\* C12: when a fair batted ball comes down to y <= 0, the distance recorded is
\* the horizontal distance of the ball from the plate, in feet, the score
\* grows by exactly round(distance * 0.5 + max(0, exitSpeed - 60) * 1.1),
\* which is 219 for 350 ft and 100 mph, and in the same tick the ball is
\* deactivated and the state becomes RESULT.
C12_LandingScore ==
  /\ Points(35000, 100000) = 219
  /\ [][Landing =>
          LET dx == ballPos'.x
              dz == ballPos'.z - plateZ
              feet == RDiv(Sqrt(dx * dx + dz * dz) * FT_PER_M, 1000)
              bonus == RDiv(11 * Max(0, lastExitMph - 60000), 10)
          IN /\ lastWasFairHit
             /\ lastHitDistanceFeet' = feet
             /\ score' = score + RDiv(5 * feet + bonus, 1000)
             /\ ~isActive'
             /\ state' = "RESULT"]_vars

\* A batted ball has landed and scored.
C12_Witness ==
  /\ state = "RESULT"
  /\ isHit
  /\ ballPos.y <= 0
  /\ lastHitDistanceFeet > 0
  /\ score > 0

\* The tick on which ball-in-play tracking ends with the ball still above the
\* ground: it went beyond the maximum travel distance.
FarEnd ==
  /\ state = "BALL_IN_PLAY"
  /\ isActive
  /\ TickStep
  /\ state' = "RESULT"
  /\ ballPos'.y > 0

\* C13 as claimed: when tracking ends because the ball went beyond the maximum
\* travel distance, the horizontal distance from the plate is still recorded
\* as the last hit distance and a fair hit still scores
\* round(distance * 0.5 + max(0, exitSpeed - 60) * 1.1).
C13_FarStillScores ==
  [][FarEnd =>
       LET dx == ballPos'.x
           dz == ballPos'.z - plateZ
           feet == RDiv(Sqrt(dx * dx + dz * dz) * FT_PER_M, 1000)
           bonus == RDiv(11 * Max(0, lastExitMph - 60000), 10)
       IN /\ lastHitDistanceFeet' = feet
          /\ score' = score + RDiv(5 * feet + bonus, 1000)
          /\ ~isActive'
          /\ state' = "RESULT"]_vars

\* Where the ball of a pitch in flight was one regular frame ago, from where
\* it is and how it moves now (the break was added to the velocity after the
\* ball was moved).
PrevPitchPos ==
  LET vx == ballVel.x - RDiv(pitchMoveXPerSec * DtFrame, 1000)
      vy == ballVel.y - RDiv(pitchMoveYPerSec * DtFrame, 1000)
  IN Vec(ballPos.x - RDiv(vx * DtFrame, 1000),
         ballPos.y - RDiv(vy * DtFrame, 1000),
         ballPos.z - RDiv(ballVel.z * DtFrame, 1000))

\* C14: the plate call is "Strike" exactly when the crossing point has
\* zoneLeftX <= x <= zoneRightX and zoneBottomY <= y <= zoneTopY, bounds
\* included, and "Ball" otherwise.
C14_ZoneInclusive ==
  [][\A dt \in DtSet :
       LET pos == PitchPosAfter(dt)
           point == Intersection(ballPos, pos)
           inZone == /\ zoneLeftX <= point.x /\ point.x <= zoneRightX
                     /\ zoneBottomY <= point.y /\ point.y <= zoneTopY
       IN ( /\ state \in PitchStates
            /\ Tick(dt)
            /\ isActive
            /\ ~currentPitchHasCrossedPlate
            /\ ballPos.z < plateZ /\ pos.z >= plateZ )
          => /\ currentPitchCall' = (IF inZone THEN "Strike" ELSE "Ball")
             /\ currentPitchHasCrossedPlate']_vars

\* A pitch that crossed the plate exactly on the right edge of the zone has
\* been called a strike.
C14_Witness ==
  /\ state = "PITCHING"
  /\ currentPitchCall = "Strike"
  /\ PrevPitchPos.z < plateZ
  /\ ballPos.z >= plateZ
  /\ Intersection(PrevPitchPos, ballPos).x = zoneRightX

\* C15: stateTimer is the sum of the tick times since RESULT was entered: it
\* is 0 on entry and only a tick adds to it. The game stays in RESULT on every
\* tick that leaves the sum under resultDelay and moves to IDLE on the first
\* tick that makes it >= resultDelay; requestPitch and handleSwing neither
\* shorten nor extend the dwell.
C15_Dwell ==
  [][/\ (state # "RESULT" /\ state' = "RESULT") => stateTimer' = 0
     /\ state = "RESULT" =>
          /\ \A dt \in DtSet :
               Tick(dt) =>
                 IF stateTimer + dt < resultDelay
                 THEN state' = "RESULT" /\ stateTimer' = stateTimer + dt
                 ELSE state' = "IDLE"
          /\ ~TickStep => state' = "RESULT" /\ stateTimer' = stateTimer]_vars

\* The game is back in IDLE after a dwell during which the batter swung.
C15_Witness ==
  /\ state = "IDLE"
  /\ stateTimer = 0
  /\ lastResult # "Ready"
  /\ swingActive
  /\ swingTime > 0

\* C16: a swing request made while a swing is in progress leaves swingActive
\* and swingTime as they are; made while no swing is active it sets
\* swingActive and puts swingTime to 0.
C16_StartSwing ==
  [][HandleSwing =>
       IF swingActive THEN UNCHANGED batVars
       ELSE swingActive' /\ swingTime' = 0]_vars

\* The batter swung at a pitch while a swing begun before the pitch was still
\* running, and that swing went on.
C16_Witness ==
  /\ state = "SWINGING"
  /\ lastResult = "Swinging..."
  /\ swingActive
  /\ swingTime > stateTimer

\* The step has added dt to the time of the swing, or ended the swing, clamped,
\* if that brought it to SWING_DURATION.
SwingAdvanced(dt) ==
  IF swingTime + dt >= SWING_DURATION
  THEN ~swingActive' /\ swingTime' = SWING_DURATION
  ELSE swingActive' /\ swingTime' = swingTime + dt

\* C17: every tick, in every game state, adds its dt > 0 to the time of an
\* active swing; on the first tick that brings it to SWING_DURATION the swing
\* becomes inactive with swingTime clamped to SWING_DURATION, and nothing but a
\* tick changes an active swing: a started swing ends after at most
\* SWING_DURATION / dt ticks.
C17_SwingEnds ==
  /\ \A dt \in DtSet : dt > 0
  /\ [][swingActive =>
          /\ swingTime < SWING_DURATION
          /\ \A dt \in DtSet : SwingAdvanced(dt) \/ ~Tick(dt)
          /\ UNCHANGED batVars
             \/ \E dt \in DtSet : SwingAdvanced(dt) /\ Tick(dt)]_vars

\* A swing has ended while the batted ball was in flight.
C17_Witness ==
  /\ state = "BALL_IN_PLAY"
  /\ ~swingActive
  /\ swingTime = SWING_DURATION

\* C18: isInContactWindow is true only while the swing time over
\* SWING_DURATION lies in [CONTACT_START, CONTACT_END]; it is false before any
\* swing was started, at the instant a swing starts and once the swing has
\* ended, so it is true only while a swing is active.
C18_ContactWindow ==
  LET open == IsInContactWindow(swingActive, swingTime)
  IN /\ open => /\ swingActive
                /\ swingTime * 100 >= CONTACT_START * SWING_DURATION
                /\ swingTime * 100 <= CONTACT_END * SWING_DURATION
     /\ swingTime = 0 => ~open
     /\ ~swingActive => ~open

\* The contact window of a running swing is open.
C18_Witness ==
  /\ IsInContactWindow(swingActive, swingTime)
  /\ swingActive
  /\ swingTime > 0

\* The sum of the weights of the first i definitions.
RECURSIVE CumulativeWeight(_)
CumulativeWeight(i) ==
  IF i = 0 THEN 0 ELSE CumulativeWeight(i - 1) + pitchDefs[i].usageWeight

\* C19: for a draw r in [0, totalWeight) the weighted choice returns the first
\* definition whose cumulative weight exceeds r, never an undefined one; with
\* the weights 0.5, 0.2, 0.15, 0.15 the draws 0 and just under 0.5 give the
\* first definition and the draw 0.5 the second.
C19_WeightedChoice ==
  aiChoice # "" =>
    /\ \E i \in 1 .. Len(pitchDefs) :
         /\ aiChoice = pitchDefs[i].code
         /\ CumulativeWeight(i) > aiDraw
         /\ \A j \in 1 .. (i - 1) : CumulativeWeight(j) <= aiDraw
    /\ aiDraw = 0 => aiChoice = pitchDefs[1].code
    /\ aiDraw = pitchDefs[1].usageWeight - 1 => aiChoice = pitchDefs[1].code
    /\ aiDraw = pitchDefs[1].usageWeight => aiChoice = pitchDefs[2].code

\* The draw 0.5 has chosen the second definition.
C19_Witness ==
  /\ aiDraw = pitchDefs[1].usageWeight
  /\ aiChoice = "SLIDER"

\* C20 as claimed, its last part: on the tick on which the call is made
\* strikes and outs do not change.
C20_CallLeavesCount ==
  [][(state \in PitchStates /\ currentPitchCall = NoCall
        /\ currentPitchCall' \in {"Strike", "Ball"}) => NoStrike]_vars

\* C20 amended: within a pitch the call changes at most once, from "-" to
\* "Strike" or "Ball", on the tick on which the ball goes from z < plateZ to
\* z >= plateZ, and then stays until the pitch is over and the game returns to
\* IDLE. Strikes and outs stay as they are on the crossing tick unless that
\* tick also ends the pitch (the ball is beyond plateZ + 1.0 after it).
C20_CallOnce ==
  [][currentPitchCall' # currentPitchCall =>
       \/ /\ currentPitchCall = NoCall
          /\ currentPitchCall' \in {"Strike", "Ball"}
          /\ state \in PitchStates
          /\ ~currentPitchHasCrossedPlate
          /\ currentPitchHasCrossedPlate'
          /\ \E dt \in DtSet :
               /\ Tick(dt)
               /\ ballPos.z < plateZ
               /\ PitchPosAfter(dt).z >= plateZ
          /\ state' \in PitchStates => NoStrike
       \/ /\ currentPitchCall' = NoCall
          /\ state = "RESULT"
          /\ state' = "IDLE"]_vars

\* A pitch the batter swung at and missed has been called at the plate and is
\* still in flight.
C20_Witness ==
  /\ state = "SWINGING"
  /\ isActive
  /\ currentPitchHasCrossedPlate
  /\ currentPitchCall = "Strike"

\* The step of update(dt) that takes RESULT to IDLE (Game._toIdle).
ToIdle == state = "RESULT" /\ state' = "IDLE"

\* C21: after the RESULT -> IDLE transition the inactive ball is off-field, the
\* call is cleared and the per-pitch flags currentPitchHasCrossedPlate,
\* swingUsedThisPitch and hadContactThisPitch are all false.
C21_FlagsClearedInIdle ==
  [][ToIdle =>
       /\ ~isActive' /\ ballPos' = offField
       /\ currentPitchCall' = NoCall
       /\ ~currentPitchHasCrossedPlate'
       /\ ~swingUsedThisPitch'
       /\ ~hadContactThisPitch']_vars

\* A swing makes contact in this step.
Contact == ~hadContactThisPitch /\ hadContactThisPitch'

\* C22: in the screen-space aim model there is no contact when the distance
\* between reticle and ball exceeds maxScreenDistForHit or the ball is more
\* than swingTimingWindowZ from the plate plane; the contact quality is in
\* [0, 1], is 1 when the distance is <= maxScreenDistForPerfect and never grows
\* with the distance; the label is "Perfect contact" exactly when the distance
\* is <= maxScreenDistForPerfect. A swing that makes contact has the ball in
\* the timing window and hands on the quality and the label of its distance.
C22_ScreenSpaceQuality ==
  /\ \A d \in 0 .. MaxScreenDist :
       /\ ContactQuality(d) \in 0 .. 1000
       /\ d <= maxScreenDistForPerfect => ContactQuality(d) = 1000
       /\ d < MaxScreenDist => ContactQuality(d + 1) <= ContactQuality(d)
       /\ ContactLabel(ContactQuality(d)) = "Perfect contact"
            <=> d <= maxScreenDistForPerfect
       /\ d > maxScreenDistForHit =>
            \A z \in (plateZ - swingTimingWindowZ) .. (plateZ + swingTimingWindowZ) :
              ~ContactMade(TRUE, Vec(0, strikeZoneCenterY, z), TRUE, d)
       /\ \A off \in (swingTimingWindowZ + 1) .. (2 * swingTimingWindowZ) :
            /\ ~ContactMade(TRUE, Vec(0, strikeZoneCenterY, plateZ - off), TRUE, d)
            /\ ~ContactMade(TRUE, Vec(0, strikeZoneCenterY, plateZ + off), TRUE, d)
  /\ [][Contact =>
          /\ Abs(ballPos.z - plateZ) <= swingTimingWindowZ
          /\ \E d \in DistSet :
               /\ d <= maxScreenDistForHit
               /\ lastExitMph' = ExitMph(ContactQuality(d))
               /\ lastResult' = IF d <= maxScreenDistForPerfect
                                THEN "Perfect contact" ELSE "In play"]_vars

\* A swing with the reticle between the two thresholds has just made contact.
C22_Witness ==
  /\ state = "BALL_IN_PLAY"
  /\ stateTimer = 0
  /\ lastResult = "In play"
  /\ lastExitMph = ExitMph(ContactQuality(125))
  /\ ContactQuality(125) \in 1 .. 999

\* C23: a swing during PITCHING that finds the strike-zone rectangle missing
\* or with no width or height makes no contact, whatever the distance between
\* ball and reticle: ball, strikes, outs and score are unchanged and the game
\* is SWINGING with the pitch still in flight; a pitch that was swung at
\* without contact then ends on a tick in RESULT with its no-contact outcome,
\* a ball if it was called "Ball" and a swinging strike otherwise.
C23_DegenerateRect ==
  /\ [][\A d \in DistSet, sp \in SpraySet :
          state = "PITCHING" /\ ~swingUsedThisPitch /\ HandleSwingWith(FALSE, d, sp) =>
            /\ ~ContactMade(isActive, ballPos, FALSE, d)
            /\ ~hadContactThisPitch'
            /\ state' = "SWINGING"
            /\ swingUsedThisPitch'
            /\ UNCHANGED <<ballVars, strikes, outs, score>>]_vars
  /\ [][state = "SWINGING" /\ ~hadContactThisPitch /\ state' # "SWINGING" =>
          /\ state' \in {"RESULT", "BALL_IN_PLAY"}
          /\ state' = "RESULT" =>
               /\ ~isActive'
               /\ score' = score
               /\ IF currentPitchCall' = "Ball" THEN NoStrike
                  ELSE OneStrike /\ lastResult' = "Strike (swinging)"]_vars

\* A swing has just been made with the ball close enough to the plate plane
\* for contact, and made none.
C23_Witness ==
  /\ state = "SWINGING"
  /\ swingUsedThisPitch
  /\ ~hadContactThisPitch
  /\ isActive
  /\ Abs(ballPos.z - plateZ) <= swingTimingWindowZ
  /\ swingActive /\ swingTime = 0
  /\ lastResult = "Swinging..."

\* C24: between operations the ball is active exactly when the game state is
\* PITCHING, SWINGING or BALL_IN_PLAY; in IDLE and RESULT it is inactive.
C24_ActiveIffInFlight ==
  isActive <=> state \in {"PITCHING", "SWINGING", "BALL_IN_PLAY"}

\* A batted ball has come down and been deactivated: the game is in RESULT.
C24_Witness ==
  /\ state = "RESULT"
  /\ isHit
  /\ ~isActive
  /\ lastHitDistanceFeet > 0

\* C25: hadContactThisPitch is false whenever the state is PITCHING or
\* SWINGING, so the pitch that ends there ends by the no-contact adjudication,
\* and ball.isHit equals hadContactThisPitch in every reachable state.
C25_NoContactInPitch ==
  /\ state \in PitchStates => ~hadContactThisPitch
  /\ isHit = hadContactThisPitch

\* A pitch is in flight after a pitch that was hit.
C25_Witness ==
  /\ state \in PitchStates
  /\ score > 0
  /\ ~hadContactThisPitch
  /\ ~isHit

\* C26: at most one swing counts per pitch. A handleSwing during a pitch that
\* has already been swung at leaves game state, ball, counters and flags
\* unchanged and attempts no contact, whatever the rectangle and the distance
\* between ball and reticle; the first handleSwing of a pitch is consumed and
\* attempts contact even when the bat, still in an earlier swing, rejects it.
C26_OneSwingPerPitch ==
  [][\A rectOk \in BOOLEAN, d \in DistSet, sp \in SpraySet :
       state \in PitchStates /\ HandleSwingWith(rectOk, d, sp) =>
         IF swingUsedThisPitch
         THEN UNCHANGED <<gameVars, ballVars>>
         ELSE /\ swingUsedThisPitch'
              /\ swingActive => UNCHANGED batVars
              /\ hadContactThisPitch' <=> ContactMade(isActive, ballPos, rectOk, d)
              /\ hadContactThisPitch' => state' = "BALL_IN_PLAY"]_vars

\* The pitch was swung at on an earlier tick, by a swing that began during
\* the pitch and is still running, and the ball is now close enough to the
\* plate plane for contact: a further handleSwing finds and leaves this state.
C26_Witness ==
  /\ state = "SWINGING"
  /\ swingUsedThisPitch
  /\ ~hadContactThisPitch
  /\ isActive
  /\ Abs(ballPos.z - plateZ) <= swingTimingWindowZ
  /\ swingActive
  /\ swingTime > 0
  /\ swingTime <= stateTimer

\* C27: counters change only at the end of a pitch and at most once per pitch.
\* strikes and outs change only on the step that takes PITCHING or SWINGING to
\* RESULT, and then by one strike, with score unchanged; score changes only on
\* the step that takes BALL_IN_PLAY to RESULT, and then grows, with strikes and
\* outs unchanged. A pitch enters RESULT once: from BALL_IN_PLAY the game goes
\* only to RESULT and from RESULT only to IDLE, so between two visits to IDLE
\* at most one strike is registered, the score grows at most once, and never
\* both.
C27_CountersAtPitchEnd ==
  [][/\ (strikes' # strikes \/ outs' # outs) =>
          /\ state \in PitchStates /\ state' = "RESULT"
          /\ OneStrike
          /\ score' = score
     /\ score' # score =>
          /\ state = "BALL_IN_PLAY" /\ state' = "RESULT"
          /\ score' > score
          /\ NoStrike
     /\ state = "BALL_IN_PLAY" => state' \in {"BALL_IN_PLAY", "RESULT"}
     /\ state = "RESULT" => state' \in {"RESULT", "IDLE"}
     /\ state \in PitchStates =>
          state' \in PitchStates \cup {"BALL_IN_PLAY", "RESULT"}]_vars

\* A hit has just been scored in an at-bat that already has a strike from an
\* earlier pitch.
C27_Witness ==
  /\ state = "RESULT"
  /\ stateTimer = 0
  /\ isHit
  /\ score > 0
  /\ strikes > 0

\* The tick that ends a pitch without contact because the ball has passed
\* beyond the plate: z > plateZ + 1.0 with y >= 0.
EndsBeyondPlate ==
  /\ state \in PitchStates
  /\ state' = "RESULT"
  /\ \E dt \in DtSet :
       /\ PitchPosAfter(dt).z > strikeZoneCenterZ + 100
       /\ PitchPosAfter(dt).y >= 0
       /\ Tick(dt)

\* C29: a pitch that ends without contact because the ball passed beyond the
\* plate has a recorded call, "Strike" or "Ball", also when the ball crosses
\* the plate plane and the end threshold in one tick, and its result is never
\* "Miss".
C29_CallBeforeFinish ==
  [][EndsBeyondPlate =>
       /\ currentPitchHasCrossedPlate'
       /\ currentPitchCall' \in {"Strike", "Ball"}
       /\ lastResult' \in {"Ball", "Strike (swinging)", "Strike (looking)"}]_vars

\* A pitch called "Ball" that was not swung at has ended beyond the plate,
\* above the ground.
C29_Witness ==
  /\ state = "RESULT"
  /\ stateTimer = 0
  /\ currentPitchHasCrossedPlate
  /\ currentPitchCall = "Ball"
  /\ lastResult = "Ball"
  /\ ~swingUsedThisPitch

\* C28: with update(dt) called again and again, dt > 0, and requestPitch and
\* handleSwing called at any time in between, every pitch terminates: from
\* PITCHING or SWINGING the game reaches RESULT, directly or by way of
\* BALL_IN_PLAY, and from RESULT it reaches IDLE.
C28_PitchTerminates ==
  /\ (state \in PitchStates) ~> (state = "RESULT")
  /\ (state = "BALL_IN_PLAY") ~> (state = "RESULT")
  /\ (state = "RESULT") ~> (state = "IDLE")

\* A pitch that was hit has come down, been scored and given way to IDLE.
C28_Witness ==
  /\ state = "IDLE"
  /\ stateTimer = 0
  /\ ~isActive
  /\ lastHitDistanceFeet > 0
  /\ score > 0

====
